---- MODULE Spec2Model ----
(***************************************************************************)
(* Model of src/main.py: the Ethereum balance exporter.                   *)
(*                                                                         *)
(* Strings are sequences of one-character strings, so that the character   *)
(* tests of the validators, str.partition, str.lower and the ${NAME}       *)
(* regular expression are computed as the code computes them.              *)
(***************************************************************************)
EXTENDS Integers, Sequences, FiniteSets, TLC

VARIABLES
    file,        \* what open() and yaml.safe_load meet for "config.yaml"
    doc,         \* the document yaml.safe_load returns when the file is readable
    env,         \* value of environment variable T (Nothing when not set)
    pc,          \* position of the process in the module-level script
    exitCode,    \* exit status of the process once it has terminated
    config,      \* the module global `config` (Nothing before load_config returns)
    middleware,  \* whether BearerTokenAuthMiddleware was added to the app
    registry,    \* balance_gauge: label tuple -> value (the children of the Gauge)
    task,        \* the module global `task` (the asyncio task of periodic_task)
    cycle,       \* the caller of the update_metrics call in progress, or "none"
    ended,       \* how the last update_metrics call ended
    ni,          \* update_metrics: index of `network` in config.networks
    ai,          \* update_metrics: index of `address` in config.addresses
    balance,     \* update_metrics: the local variable `balance`
    rpc,         \* what get_balance does for each address during this cycle
    queried,     \* the <<network, address>> index pairs queried in this cycle
    atStart,     \* the registry as it was when this cycle began
    last,        \* label tuple -> balance its most recent successful query returned
    log,         \* log events emitted by the last step of update_metrics
    req,         \* Authorization header of the request handled in the last step
    resp,        \* response to the request handled in the last step
    shutdown,    \* outcome of shutdown_event
    running,     \* number of update_metrics calls in progress
    repeat,      \* whether the RPC calls of this cycle have so far repeated the previous cycle
    tree,        \* a parsed YAML value handed to substitute_env_variables
    out          \* what substitute_env_variables returned for tree

vars == <<file, doc, env, pc, exitCode, config, middleware, registry, task,
          cycle, ended, ni, ai, balance, rpc, queried, atStart, last, log,
          req, resp, shutdown, running, repeat, tree, out>>

-----------------------------------------------------------------------------
(* Bounds of the model *)

\* longest `networks` list and longest `addresses` list of a configuration
MaxLen == 2

(* Python values: an optional value is <<>> (None, unset, unbound) or <<v>> *)
Nothing == <<>>
Some(v) == <<v>>
IsSome(o) == o # <<>>
Get(o) == o[1]

-----------------------------------------------------------------------------
(* Sample strings *)

NetA == <<"A">>
NetB == <<"B">>
BadName == <<"A", " ">>
Addr1 == <<"0", "x", "1">>
BadAddr == <<"z">>
Wallet == <<"w">>
Endpoint == <<"u">>
Tok == <<"t">>
Placeholder == <<"$", "{", "T", "}">>
EnvT == <<"T">>
Bearer == <<"B", "e", "a", "r", "e", "r">>
Basic == <<"B", "a", "s", "i", "c">>

\* the sample strings that Web3.is_address accepts
EthAddresses == {Addr1}

WordChars == {"A", "B", "T", "a", "b", "e", "r", "s", "i", "c", "t", "u", "w",
              "x", "z", "0", "1", "2", "_"}

SeqsUpTo(S, n) == UNION {[1..k -> S] : k \in 0..n}

-----------------------------------------------------------------------------
(* substitute_env_variables *)

\* os.getenv(name, default): only T may be set in the modelled environment
getenv(e, name, default) ==
    IF name = EnvT /\ IsSome(e) THEN Get(e) ELSE default

\* end of the maximal run of \w characters of s that starts at i
RECURSIVE WordEnd(_, _)
WordEnd(s, i) ==
    IF i <= Len(s) /\ s[i] \in WordChars THEN WordEnd(s, i + 1) ELSE i

\* position of the closing brace of a match of \$\{(\w+)\} at i, or 0
MatchAt(s, i) ==
    IF i + 1 <= Len(s) /\ s[i] = "$" /\ s[i + 1] = "{"
    THEN LET j == WordEnd(s, i + 2)
         IN  IF j > i + 2 /\ j <= Len(s) /\ s[j] = "}" THEN j ELSE 0
    ELSE 0

\* mutant: a reference to an unset variable is replaced by the empty string
replaceUnsetByEmpty(e, name) == getenv(e, name, <<>>)

\* replace(match)
replace(e, name) == getenv(e, name, <<"$", "{">> \o name \o <<"}">>)

\* pattern.sub(replace, s), scanning from position i
RECURSIVE SubFrom(_, _, _)
SubFrom(e, s, i) ==
    IF i > Len(s) THEN <<>>
    ELSE LET j == MatchAt(s, i)
         IN  IF j # 0
             THEN replace(e, SubSeq(s, i + 2, j - 1)) \o SubFrom(e, s, j + 1)
             ELSE <<s[i]>> \o SubFrom(e, s, i + 1)

\* search_replace on a string scalar
search_replace(e, s) == SubFrom(e, s, 1)

\* substitute_env_variables on the tree of a configuration document: the
\* integer and an absent token take the final `else: return obj` branch
substitute_env_variables(e, d) ==
    [networks |-> [i \in DOMAIN d.networks |->
                     [name |-> search_replace(e, d.networks[i].name),
                      rpc_endpoint |-> search_replace(e, d.networks[i].rpc_endpoint)]],
     addresses |-> [i \in DOMAIN d.addresses |->
                     [address |-> search_replace(e, d.addresses[i].address),
                      name |-> search_replace(e, d.addresses[i].name),
                      network |-> search_replace(e, d.addresses[i].network)]],
     update_interval_seconds |-> d.update_interval_seconds,
     static_bearer_token |->
         IF IsSome(d.static_bearer_token)
         THEN Some(search_replace(e, Get(d.static_bearer_token)))
         ELSE Nothing]

\* a parsed YAML value: a node [tag, val] whose val is the string or number of
\* a scalar, the sequence of nodes of a list, or the function from keys to
\* nodes of a mapping
Node(tag, val) == [tag |-> tag, val |-> val]

\* search_replace, lines 95-103, on any parsed YAML value
RECURSIVE search_replace_obj(_, _)
search_replace_obj(e, obj) ==
    CASE obj.tag = "map" ->
             Node("map", [k \in DOMAIN obj.val |-> search_replace_obj(e, obj.val[k])])
      [] obj.tag = "list" ->
             Node("list", [i \in DOMAIN obj.val |-> search_replace_obj(e, obj.val[i])])
      [] obj.tag = "str" -> Node("str", search_replace(e, obj.val))
      [] OTHER -> obj

-----------------------------------------------------------------------------
(* The pydantic models *)

\* Field(..., min_length=1) and Field(..., ge=60)
MinLength == 1
MinInterval == 60

\* the characters that both name_compatible_with_prometheus validators refuse
LabelBreakers == {" ", "\"", "{", "}"}

HasLabelBreaker(v) == \E i \in 1..Len(v) : v[i] \in LabelBreakers

\* Network.name_compatible_with_prometheus accepts v
NetworkNameOk(v) == ~HasLabelBreaker(v)

\* mutant: the Address model without its name validator
AddressNameUnchecked(v) == TRUE

\* Address.name_compatible_with_prometheus accepts v
AddressNameOk(v) == ~HasLabelBreaker(v)

\* Address.address_is_valid_ethereum accepts v (Web3.is_address)
AddressOk(v) == v \in EthAddresses

\* Network(**n) validates
NetworkValid(n) == NetworkNameOk(n.name)

\* Address(**a) validates
AddressValid(a) == AddressOk(a.address) /\ AddressNameOk(a.name)

AddressesFieldOk(l) == Len(l) >= MinLength /\ \A i \in DOMAIN l : AddressValid(l[i])

NetworksFieldOk(l) == Len(l) >= MinLength /\ \A i \in DOMAIN l : NetworkValid(l[i])

IntervalFieldOk(n) == n >= MinInterval

\* Config.model_validate(d) returns a Config
ConfigValid(d) ==
    /\ AddressesFieldOk(d.addresses)
    /\ NetworksFieldOk(d.networks)
    /\ IntervalFieldOk(d.update_interval_seconds)

-----------------------------------------------------------------------------
(* load_config and the module-level script *)

\* how load_config("config.yaml") ends: "returned", "SystemExit" (an error it
\* catches and re-raises as SystemExit) or "uncaught" (PermissionError is
\* none of FileNotFoundError, yaml.YAMLError, ValidationError)
load_config(f, e, d) ==
    CASE f = "missing" -> "SystemExit"
      [] f = "unreadable" -> "uncaught"
      [] f = "malformed" -> "SystemExit"
      [] OTHER -> IF ConfigValid(substitute_env_variables(e, d))
                  THEN "returned" ELSE "SystemExit"

\* exit status after `except SystemExit: exit()`
ExitOnConfigError == 0
\* exit status of the interpreter after an uncaught exception
ExitOnTraceback == 1

Cfg == Get(config)

\* mutant: `except SystemExit: pass`, the script goes on after a failed load
AfterLoadFallThrough(r) == "setup"

\* where the script goes after the try statement of lines 149-152, when
\* load_config ended as r
AfterLoad(r) == IF r = "returned" THEN "setup" ELSE "exited"

\* lines 149-152: config = load_config("config.yaml")
LoadConfig ==
    /\ pc = "import"
    /\ LET r == load_config(file, env, doc)
       IN  /\ pc' = AfterLoad(r)
           /\ CASE r = "returned" ->
                     /\ config' = Some(substitute_env_variables(env, doc))
                     /\ exitCode' = exitCode
                [] r = "SystemExit" ->
                     /\ exitCode' = Some(ExitOnConfigError)
                     /\ config' = config
                [] OTHER ->
                     /\ exitCode' = Some(ExitOnTraceback)
                     /\ config' = config
    /\ UNCHANGED <<file, doc, env, middleware, registry, task, cycle, ended, ni,
                   ai, balance, rpc, queried, atStart, last, log, req, resp,
                   shutdown, running, repeat, tree, out>>

\* Python truth value of config.static_bearer_token
Truthy(t) == IsSome(t) /\ Len(Get(t)) > 0

\* lines 155-176: the app, the middleware installation and the Gauge
ModuleSetup ==
    /\ pc = "setup"
    /\ middleware' = Truthy(Cfg.static_bearer_token)
    /\ registry' = <<>>
    /\ pc' = "main"
    /\ UNCHANGED <<file, doc, env, exitCode, config, task, cycle, ended, ni, ai,
                   balance, rpc, queried, atStart, last, log, req, resp,
                   shutdown, running, repeat, tree, out>>

-----------------------------------------------------------------------------
(* update_metrics *)

\* An amount of wei is <<hi, lo>>, standing for hi * 2^53 + lo with hi in {0, 1}
\* and lo small: the integers up to 2^53 are IEEE doubles, and from 2^53 to
\* 2^54 only the even ones are.
Wei(hi, lo) == <<hi, lo>>
Zero == Wei(0, 0)

\* the sample balances: 0, which a double holds exactly, and 2^53 + 1, which
\* it does not
Balances == {Zero, Wei(1, 1)}

\* float(b), rounding to nearest, ties to the even mantissa
float(b) ==
    IF b[1] = 0 \/ b[2] % 2 = 0 THEN b
    ELSE IF b[2] % 4 = 1 THEN Wei(b[1], b[2] - 1)
    ELSE Wei(b[1], b[2] + 1)

\* what w3.eth.get_balance does: return a balance ("ok"), or raise; a
\* malformed RPC response raises a Web3Exception (BadResponseFormat), a timeout
\* or a refused connection raises the exception of the HTTP library
Kinds == {"ok", "malformed", "timeout", "connection"}

\* `except web3_exceptions.Web3Exception` catches the failure
Caught(kind) == kind = "malformed"

\* the labels of balance_gauge.labels(...) for an address and a network
Labels(address, network) ==
    [address |-> address.address,
     address_name |-> address.name,
     network_name |-> network.name]

\* mutant: balance_gauge.labels(**l).inc(b), the gauge accumulates
GaugeInc(reg, l, b) ==
    IF l \in DOMAIN reg
    THEN (l :> Wei(reg[l][1] + b[1], reg[l][2] + b[2])) @@ reg
    ELSE (l :> float(b)) @@ reg

\* balance_gauge.labels(**l).set(b): Gauge.set stores float(b)
GaugeSet(reg, l, b) == (l :> float(b)) @@ reg

\* the registry after the except branch, lines 134-137, for labels l
AfterFailure(reg, l) == reg

\* mutant: the test of line 125 dropped, every address polled on every network
BoundAlways(address, network) == TRUE

\* line 124
Bound(address, network) == address.network = network.name

\* the loop position after the visit of (n, a): the next address, else the
\* first address of the next network, else <<0, 0>> (both loops are done)
NextPosition(c, n, a) ==
    IF a < Len(c.addresses) THEN <<n, a + 1>>
    ELSE IF n < Len(c.networks) THEN <<n + 1, 1>>
    ELSE <<0, 0>>

\* update_metrics returns to its caller
Return ==
    /\ cycle' = "none"
    /\ ended' = "returned"
    /\ running' = running - 1
    /\ ni' = 0
    /\ ai' = 0
    /\ IF cycle = "initial"
       THEN pc' = "run_server" /\ task' = task /\ exitCode' = exitCode
       ELSE task' = "sleeping" /\ pc' = pc /\ exitCode' = exitCode

\* an exception leaves update_metrics: at line 182 it ends the process with a
\* traceback, in periodic_task it ends the task
Raise ==
    /\ cycle' = "none"
    /\ ended' = "raised"
    /\ running' = running - 1
    /\ ni' = 0
    /\ ai' = 0
    /\ IF cycle = "initial"
       THEN pc' = "exited" /\ exitCode' = Some(ExitOnTraceback) /\ task' = task
       ELSE task' = "failed" /\ pc' = pc /\ exitCode' = exitCode

WarningEvent(address, network) ==
    [level |-> "warning", address |-> address, network |-> network.name,
     balance |-> Zero]

InfoEvent(address, network, b) ==
    [level |-> "info", address |-> address, network |-> network.name,
     balance |-> b]

\* lines 138-141 and the loop control: logger.info reads `balance`, which is
\* unbound until a query of this call has succeeded
LogAndAdvance(warned, bal) ==
    IF bal = Nothing
    THEN /\ log' = warned
         /\ balance' = Nothing
         /\ Raise
    ELSE /\ log' = Append(warned,
                          InfoEvent(Cfg.addresses[ai], Cfg.networks[ni], Get(bal)))
         /\ LET p == NextPosition(Cfg, ni, ai)
            IN  IF p = <<0, 0>>
                THEN /\ balance' = Nothing
                     /\ Return
                ELSE /\ ni' = p[1]
                     /\ ai' = p[2]
                     /\ balance' = bal
                     /\ UNCHANGED <<cycle, ended, pc, task, exitCode, running>>

\* lines 125-137 when the call behaves as kind k (and returns b when it returns)
Query(k, b) ==
    LET address == Cfg.addresses[ai]
        network == Cfg.networks[ni]
        l == Labels(address, network)
    IN  /\ queried' = queried \cup {<<ni, ai>>}
        /\ CASE k = "ok" ->
                  /\ registry' = GaugeSet(registry, l, b)
                  /\ last' = (l :> b) @@ last
                  /\ repeat' = (repeat /\ l \in DOMAIN last /\ last[l] = b)
                  /\ LogAndAdvance(<<>>, Some(b))
             [] Caught(k) ->
                  /\ registry' = AfterFailure(registry, l)
                  /\ last' = last
                  /\ repeat' = repeat
                  /\ LogAndAdvance(<<WarningEvent(address, network)>>, balance)
             [] OTHER ->
                  /\ UNCHANGED <<registry, last, repeat>>
                  /\ log' = <<>>
                  /\ balance' = Nothing
                  /\ Raise

\* one iteration of the inner loop, lines 123-141
PollStep ==
    /\ cycle # "none"
    /\ IF Bound(Cfg.addresses[ai], Cfg.networks[ni])
       THEN IF rpc[ai] = "ok"
            THEN \E b \in Balances : Query("ok", b)
            ELSE Query(rpc[ai], Zero)
       ELSE /\ UNCHANGED <<registry, last, queried, repeat>>
            /\ LogAndAdvance(<<>>, balance)
    /\ req' = Nothing
    /\ resp' = Nothing
    /\ UNCHANGED <<file, doc, env, config, middleware, rpc, atStart, shutdown, tree, out>>

\* the entry of update_metrics, lines 119-122, in a cycle where get_balance
\* behaves as r
Enter(caller, r) ==
    /\ cycle' = caller
    /\ ended' = "running"
    /\ running' = running + 1
    /\ ni' = 1
    /\ ai' = 1
    /\ balance' = Nothing
    /\ rpc' = r
    /\ repeat' = (ended = "returned" /\ r = rpc)
    /\ queried' = {}
    /\ atStart' = registry
    /\ log' = <<>>
    /\ req' = Nothing
    /\ resp' = Nothing

\* the behaviours of get_balance in one cycle, for each address of the config
RpcBehaviours == [DOMAIN Cfg.addresses -> Kinds]

\* line 182: the first call of update_metrics
InitialCycle ==
    /\ pc = "main"
    /\ pc' = "initial_cycle"
    /\ \E r \in RpcBehaviours : Enter("initial", r)
    /\ UNCHANGED <<file, doc, env, exitCode, config, middleware, registry, task,
                   last, shutdown, tree, out>>

-----------------------------------------------------------------------------
(* The server, lines 184-202 *)

\* uvicorn.run and startup_event: the task of periodic_task is created
StartServer ==
    /\ pc = "run_server"
    /\ pc' = "serving"
    /\ task' = "sleeping"
    /\ UNCHANGED <<file, doc, env, exitCode, config, middleware, registry, cycle,
                   ended, ni, ai, balance, rpc, queried, atStart, last, log,
                   req, resp, shutdown, running, repeat, tree, out>>

\* mutant: a timer that calls update_metrics every interval, whether or not the
\* previous call has ended
TimerFiresRegardless ==
    /\ pc = "serving"
    /\ task \in {"sleeping", "polling"}
    /\ task' = "polling"
    /\ \E r \in RpcBehaviours : Enter("periodic", r)
    /\ UNCHANGED <<file, doc, env, pc, exitCode, config, middleware, registry,
                   last, shutdown, tree, out>>

\* periodic_task: asyncio.sleep returns and update_metrics is called; the call
\* is synchronous, so the event loop runs nothing else until it ends
TimerFires ==
    /\ pc = "serving"
    /\ task = "sleeping"
    /\ task' = "polling"
    /\ \E r \in RpcBehaviours : Enter("periodic", r)
    /\ UNCHANGED <<file, doc, env, pc, exitCode, config, middleware, registry,
                   last, shutdown, tree, out>>

\* str.lower on the letters of the sample strings
LowerChar(c) ==
    CASE c = "A" -> "a" [] c = "B" -> "b" [] c = "T" -> "t" [] OTHER -> c

lower(s) == [i \in DOMAIN s |-> LowerChar(s[i])]

\* index of the first space of s, or 0
RECURSIVE FirstSpace(_, _)
FirstSpace(s, i) ==
    IF i > Len(s) THEN 0 ELSE IF s[i] = " " THEN i ELSE FirstSpace(s, i + 1)

\* s.partition(' '): <<head, tail>>
partition(s) ==
    LET k == FirstSpace(s, 1)
    IN  IF k = 0 THEN <<s, <<>>>>
        ELSE <<SubSeq(s, 1, k - 1), SubSeq(s, k + 1, Len(s))>>

StatusOk == 200
StatusUnauthorized == 401

\* metrics(request): the exposition of the registry
metrics(reg) == [status |-> StatusOk, error |-> "", body |-> Some(reg)]

\* JSONResponse({"error": msg}, status_code=401)
Rejected(msg) == [status |-> StatusUnauthorized, error |-> msg, body |-> Nothing]

\* BearerTokenAuthMiddleware.dispatch for Authorization header h
dispatch(h, static_token, reg) ==
    IF h = Nothing \/ Len(Get(h)) = 0
    THEN Rejected("Authorization header missing")
    ELSE LET scheme == partition(Get(h))[1]
             token == partition(Get(h))[2]
         IN  IF Len(scheme) = 0 \/ lower(scheme) # lower(Bearer)
                \/ Some(token) # static_token
             THEN Rejected("Unauthorized")
             ELSE metrics(reg)

\* the app's answer to GET /metrics with Authorization header h
Serve(h, mw, static_token, reg) ==
    IF mw THEN dispatch(h, static_token, reg) ELSE metrics(reg)

Headers == {Nothing, Some(<<>>), Some(Bearer \o <<" ">> \o Tok),
            Some(lower(Bearer) \o <<" ">> \o Tok), Some(Basic \o <<" ">> \o Tok),
            Some(Bearer \o <<" ">> \o Wallet)}

\* mutant: the handler refreshes the balances itself, entering update_metrics
\* as it answers
HandleRequestPolling(h) ==
    /\ pc = "serving"
    /\ cycle = "none"
    /\ task = "sleeping"
    /\ req' = Some(h)
    /\ resp' = Some(Serve(h, middleware, Cfg.static_bearer_token, registry))
    /\ task' = "polling"
    /\ cycle' = "periodic"
    /\ ended' = "running"
    /\ running' = running + 1
    /\ ni' = 1
    /\ ai' = 1
    /\ balance' = Nothing
    /\ rpc' \in RpcBehaviours
    /\ repeat' = FALSE
    /\ queried' = {}
    /\ atStart' = registry
    /\ log' = <<>>
    /\ UNCHANGED <<file, doc, env, pc, exitCode, config, middleware, registry,
                   last, shutdown, tree, out>>

\* a GET /metrics request is handled
HandleRequest(h) ==
    /\ pc = "serving"
    /\ cycle = "none"
    /\ req' = Some(h)
    /\ resp' = Some(Serve(h, middleware, Cfg.static_bearer_token, registry))
    /\ UNCHANGED <<file, doc, env, pc, exitCode, config, middleware, registry,
                   task, cycle, ended, ni, ai, balance, rpc, queried, atStart,
                   last, log, shutdown, running, repeat, tree, out>>

\* shutdown_event: task.cancel(), then `await task` raises CancelledError, or
\* the exception that ended the task
Shutdown ==
    /\ pc = "serving"
    /\ cycle = "none"
    /\ pc' = "stopped"
    /\ task' = IF task = "sleeping" THEN "cancelled" ELSE task
    /\ shutdown' = "raised"
    /\ req' = Nothing
    /\ resp' = Nothing
    /\ UNCHANGED <<file, doc, env, exitCode, config, middleware, registry, cycle,
                   ended, ni, ai, balance, rpc, queried, atStart, last, log, running, repeat, tree, out>>

-----------------------------------------------------------------------------
(* Initial states *)

RawNetworks == [name : {NetA, NetB, BadName}, rpc_endpoint : {Endpoint}]

RawAddresses == [address : {Addr1, BadAddr},
                 name : {Wallet, BadName},
                 network : {NetA, NetB}]

Intervals == {MinInterval - 1, MinInterval}

SimpleDoc(token) ==
    [networks |-> <<[name |-> NetA, rpc_endpoint |-> Endpoint]>>,
     addresses |-> <<[address |-> Addr1, name |-> Wallet, network |-> NetA]>>,
     update_interval_seconds |-> MinInterval,
     static_bearer_token |-> token]

\* documents that vary the schema, without a token
SchemaDocs ==
    [networks : SeqsUpTo(RawNetworks, MaxLen),
     addresses : SeqsUpTo(RawAddresses, MaxLen),
     update_interval_seconds : Intervals,
     static_bearer_token : {Nothing}]

\* documents that vary the token
TokenDocs == {SimpleDoc(t) : t \in {Nothing, Some(<<>>), Some(Tok), Some(Placeholder)}}

\* documents with one of the four label-breaking characters in one name
NameDocs ==
    {[SimpleDoc(Nothing) EXCEPT !.networks[1].name = <<"A", c>>] : c \in LabelBreakers}
    \cup {[SimpleDoc(Nothing) EXCEPT !.addresses[1].name = <<"w", c>>] : c \in LabelBreakers}

\* a document whose address name is the placeholder ${T}
EnvNameDoc == [SimpleDoc(Nothing) EXCEPT !.addresses[1].name = Placeholder]

Init ==
    /\ \/ /\ file = "ok"
          /\ \/ doc \in SchemaDocs \cup NameDocs /\ env = Nothing
             \/ /\ doc \in TokenDocs \cup {EnvNameDoc}
                /\ env \in {Nothing, Some(<<>>), Some(Tok)}
       \/ /\ file \in {"missing", "unreadable", "malformed"}
          /\ doc = SimpleDoc(Nothing)
          /\ env = Nothing
    /\ pc = "import"
    /\ exitCode = Nothing
    /\ config = Nothing
    /\ middleware = FALSE
    /\ registry = <<>>
    /\ task = "none"
    /\ cycle = "none"
    /\ ended = "none"
    /\ ni = 0
    /\ ai = 0
    /\ balance = Nothing
    /\ rpc = <<>>
    /\ queried = {}
    /\ atStart = <<>>
    /\ last = <<>>
    /\ log = <<>>
    /\ req = Nothing
    /\ resp = Nothing
    /\ shutdown = "none"
    /\ running = 0
    /\ repeat = FALSE
    /\ tree = Nothing
    /\ out = Nothing

Next ==
    \/ LoadConfig
    \/ ModuleSetup
    \/ InitialCycle
    \/ PollStep
    \/ StartServer
    \/ TimerFires
    \/ \E h \in Headers : HandleRequest(h)
    \/ Shutdown

Spec == Init /\ [][Next]_vars

-----------------------------------------------------------------------------
(* substitute_env_variables on its own, applied to sample YAML values *)

UnsetRef == <<"$", "{", "A", "}">>
Twice == Placeholder \o <<"x">> \o Placeholder
Mixed == UnsetRef \o Placeholder
Open == <<"$", "{", "T">>
SampleStrings == {Tok, Placeholder, UnsetRef, Twice, Mixed, Open}

Scalars == {Node("str", s) : s \in SampleStrings}
               \cup {Node("int", MinInterval), Node("bool", TRUE), Node("null", Nothing)}

Keys == {<<"k">>, Placeholder}

ListsOf(X) == {Node("list", q) : q \in SeqsUpTo(X, MaxLen)}
MapsOf(X) == {Node("map", f) : f \in UNION {[K -> X] : K \in SUBSET Keys}}

\* lists and mappings of scalars
Flat == ListsOf(Scalars) \cup MapsOf(Scalars)

\* the values put inside the nested samples
Inner == {Node("str", Placeholder),
          Node("int", MinInterval),
          Node("list", <<Node("str", Mixed), Node("null", Nothing)>>),
          Node("map", (<<"k">> :> Node("str", Twice))),
          Node("map", (Placeholder :> Node("str", Placeholder)))}

Nested == ListsOf(Inner) \cup MapsOf(Inner)

Deep == {Node("list", <<x>>) : x \in Nested}
            \cup {Node("map", (<<"k">> :> x)) : x \in Nested}

Trees == Scalars \cup Flat \cup Nested \cup Deep

\* the values of T in the environment
Environments == {Nothing, Some(<<>>), Some(Tok), Some(Placeholder)}

InitWalk ==
    /\ tree \in {Some(t) : t \in Trees}
    /\ env \in Environments
    /\ out = Nothing
    /\ file = "ok"
    /\ doc = SimpleDoc(Nothing)
    /\ pc = "import"
    /\ exitCode = Nothing
    /\ config = Nothing
    /\ middleware = FALSE
    /\ registry = <<>>
    /\ task = "none"
    /\ cycle = "none"
    /\ ended = "none"
    /\ ni = 0
    /\ ai = 0
    /\ balance = Nothing
    /\ rpc = <<>>
    /\ queried = {}
    /\ atStart = <<>>
    /\ last = <<>>
    /\ log = <<>>
    /\ req = Nothing
    /\ resp = Nothing
    /\ shutdown = "none"
    /\ running = 0
    /\ repeat = FALSE

\* a call substitute_env_variables(tree), lines 83-105
Substitute ==
    /\ out = Nothing
    /\ out' = Some(search_replace_obj(env, Get(tree)))
    /\ UNCHANGED <<file, doc, env, pc, exitCode, config, middleware, registry,
                   task, cycle, ended, ni, ai, balance, rpc, queried, atStart,
                   last, log, req, resp, shutdown, running, repeat, tree>>

NextWalk == Substitute

SpecWalk == InitWalk /\ [][NextWalk]_vars

-----------------------------------------------------------------------------
(* State functions used by the properties *)

Loaded == IsSome(config)

\* the <<network, address>> index pairs that line 124 lets through
BoundPairs ==
    {p \in (DOMAIN Cfg.networks) \X (DOMAIN Cfg.addresses) :
        Bound(Cfg.addresses[p[2]], Cfg.networks[p[1]])}

\* the indexes of the addresses bound to the network of index n
AddressesOf(n) ==
    {a \in DOMAIN Cfg.addresses : Bound(Cfg.addresses[a], Cfg.networks[n])}

\* a cycle has run and is over
CycleOver == ended \in {"returned", "raised"}

\* some query of the current or last cycle failed
SomeQueryFailed == \E p \in queried : rpc[p[2]] # "ok"

\* the entry of label tuple l in registry reg, if any
Entry(reg, l) == IF l \in DOMAIN reg THEN Some(reg[l]) ELSE Nothing

\* the balance last returned for label tuple l, as a gauge value
Returned(l) == IF l \in DOMAIN last THEN Some(float(last[l])) ELSE Nothing

\* the label tuple of an address under the network it names
OwnLabels(a) ==
    [address |-> a.address, address_name |-> a.name, network_name |-> a.network]

\* every address names a declared network
AllDeclared ==
    \A a \in DOMAIN Cfg.addresses : \E n \in DOMAIN Cfg.networks :
        Bound(Cfg.addresses[a], Cfg.networks[n])

-----------------------------------------------------------------------------
(* Properties *)

\* C1: when a poll cycle in which some balance query failed is over, every
\* address bound to a network has been queried in that cycle: the failure did
\* not abort the cycle.
C1_FailedQueryDoesNotAbort ==
    (CycleOver /\ SomeQueryFailed) => queried = BoundPairs

\* C2: when a poll cycle is over in which every call for the addresses of
\* network A failed and every call for the addresses of network B succeeded,
\* B's addresses were queried and their entries hold the returned balances
\* (as gauge values),
\* and the entries of A's addresses are as they were when the cycle began.
C2_PartialFailure ==
    CycleOver =>
        \A nA, nB \in DOMAIN Cfg.networks :
            ( /\ Cfg.networks[nA].name # Cfg.networks[nB].name
              /\ AddressesOf(nA) # {}
              /\ AddressesOf(nB) # {}
              /\ \A a \in AddressesOf(nA) : rpc[a] # "ok"
              /\ \A a \in AddressesOf(nB) : rpc[a] = "ok" )
            => /\ \A a \in AddressesOf(nB) :
                    LET l == Labels(Cfg.addresses[a], Cfg.networks[nB])
                    IN  /\ <<nB, a>> \in queried
                        /\ Entry(registry, l) = Returned(l)
                        /\ IsSome(Entry(registry, l))
               /\ \A a \in AddressesOf(nA) :
                    LET l == Labels(Cfg.addresses[a], Cfg.networks[nA])
                    IN  Entry(registry, l) = Entry(atStart, l)

\* C3: when a poll cycle in which every call succeeds is over, for a
\* configuration whose addresses all name declared networks, the cycle has
\* returned normally and the registry holds, for every configured address,
\* the entry (address, address_name, network_name) with the balance returned
\* (as a gauge value).
C3_AllSucceed ==
    (CycleOver /\ AllDeclared /\ \A a \in DOMAIN Cfg.addresses : rpc[a] = "ok")
    => /\ ended = "returned"
       /\ \A a \in DOMAIN Cfg.addresses :
            LET l == OwnLabels(Cfg.addresses[a])
            IN  /\ IsSome(Entry(registry, l))
                /\ Entry(registry, l) = Returned(l)

\* C4: the registry has an entry exactly for the label tuples that were
\* successfully polled at least once, and each entry's value is the balance
\* that the most recent successful query for its label tuple returned (so no
\* entry is deleted or reset, and a failed query changes none).
C4_EntryIsLastReturned == registry = last

\* C5: a poll cycle in which a query failed ends neither the process nor the
\* background task: after it the process has not exited and the task of
\* periodic_task has not ended with an exception.
C5_PollingErrorsContained ==
    SomeQueryFailed => (pc # "exited" /\ task # "failed")

\* C6: when configuration loading or validation has failed and the process
\* has terminated, its exit code is not zero.
C6_NonZeroExitOnConfigError ==
    (pc = "exited" /\ ~Loaded) => (IsSome(exitCode) /\ Get(exitCode) # 0)

\* C7: as long as load_config has not returned a Config, nothing of the
\* service runs: no poll cycle has started, no RPC call was issued, the
\* background task was not created, no middleware or server was set up and no
\* request was served.
C7_ConfigErrorsGateStartup ==
    ~Loaded =>
        /\ pc \in {"import", "exited"}
        /\ cycle = "none"
        /\ ended = "none"
        /\ queried = {}
        /\ task = "none"
        /\ ~middleware
        /\ req = Nothing
        /\ resp = Nothing

\* a configuration error has ended the process
C7_Witness == pc = "exited" /\ ~Loaded /\ file = "ok"

\* C8: in every Config that load_config has returned, each address names a
\* declared network.
C8_UnknownNetworkRejected == Loaded => AllDeclared

\* a name without space, double quote or braces
LabelSafe(v) == \A i \in 1..Len(v) : v[i] # " " /\ v[i] # "\"" /\ v[i] # "{" /\ v[i] # "}"

\* the schema constraints of the claim, for a substituted document d
SchemaOk(d) ==
    /\ Len(d.networks) >= 1
    /\ Len(d.addresses) >= 1
    /\ d.update_interval_seconds >= 60
    /\ \A i \in DOMAIN d.networks : LabelSafe(d.networks[i].name)
    /\ \A i \in DOMAIN d.addresses :
          /\ LabelSafe(d.addresses[i].name)
          /\ d.addresses[i].address \in EthAddresses

\* C9: every Config that load_config has returned satisfies all the schema
\* constraints, and once load_config has run on a readable document that
\* violates one of them, no Config was returned.
C9_ConfigSatisfiesSchema ==
    /\ Loaded => SchemaOk(Cfg)
    /\ (pc # "import" /\ file = "ok"
        /\ ~SchemaOk(substitute_env_variables(env, doc))) => ~Loaded

\* a document whose only violation is a brace in an address name was refused
C9_Witness ==
    /\ pc = "exited"
    /\ ~Loaded
    /\ file = "ok"
    /\ doc = [SimpleDoc(Nothing) EXCEPT !.addresses[1].name = <<"w", "}">>]

\* the answer with the registry dump
Passed == [status |-> 200, error |-> "", body |-> Some(registry)]

\* C10: each handled request got the answer the claim gives it: with a token
\* configured, 401 "Authorization header missing" without an Authorization
\* header, 200 and the registry dump for "Bearer <configured token>" (the
\* scheme in either case), and 401 "Unauthorized" with an empty body for any
\* other header; with no token configured, 200 and the registry dump.
C10_AuthGate ==
    IsSome(resp) =>
        LET h == Get(req)
            t == Cfg.static_bearer_token
            r == Get(resp)
        IN  IF t = Nothing THEN r = Passed
            ELSE IF h = Nothing
            THEN r = [status |-> 401, error |-> "Authorization header missing",
                      body |-> Nothing]
            ELSE IF \E scheme \in {Bearer, lower(Bearer)} :
                        Get(h) = scheme \o <<" ">> \o Get(t)
            THEN r = Passed
            ELSE r = [status |-> 401, error |-> "Unauthorized", body |-> Nothing]

\* the Authorization header h carries "Bearer <token>", the scheme in either case
Carries(h, token) ==
    /\ IsSome(h)
    /\ \E scheme \in {Bearer, lower(Bearer)} : Get(h) = scheme \o <<" ">> \o token

\* C11: whenever the loaded configuration carries a static_bearer_token,
\* whatever string load_config accepted for it, a request answered by the
\* /metrics handler (an answer with a body) carried the Authorization header
\* "Bearer <that token>".
C11_GateWheneverTokenConfigured ==
    (IsSome(resp) /\ IsSome(Cfg.static_bearer_token) /\ IsSome(Get(resp).body)) =>
        Carries(Get(req), Get(Cfg.static_bearer_token))

\* C12: a step that handles a request starts no poll cycle, issues no RPC call
\* and leaves the registry as it was, and an answer of the handler has as its
\* body the registry as the poller last wrote it.
C12_ScrapeIsReadOnly ==
    [][IsSome(resp') =>
          /\ UNCHANGED <<registry, cycle, ended, task, queried, last, ni, ai, log>>
          /\ cycle = "none"
          /\ Get(resp').status = StatusOk => Get(resp').body = Some(registry)]_vars

\* a request was answered with the dump of a registry that has an entry
C12_Witness ==
    /\ IsSome(resp)
    /\ Get(resp).status = StatusOk
    /\ registry # <<>>
    /\ Get(resp).body = Some(registry)

\* C13: at most one call of update_metrics is in progress at any time, the
\* first call and the periodic ones counted together, and the one in progress
\* is the one the process or the task is in.
C13_CyclesNeverOverlap ==
    /\ running \in {0, 1}
    /\ running = 1 <=> cycle # "none"
    /\ cycle = "initial" => (pc = "initial_cycle" /\ task = "none")
    /\ cycle = "periodic" => (pc = "serving" /\ task = "polling")

\* a periodic cycle is in progress after an earlier cycle, with a query made
C13_Witness ==
    /\ running = 1
    /\ cycle = "periodic"
    /\ queried # {}

\* C14: while the server is up and a poll cycle is in progress, a GET /metrics
\* request can be handled: its answer does not wait for the cycle's RPC calls.
C14_ScrapeDuringCycle ==
    (pc = "serving" /\ cycle # "none") => ENABLED (\E h \in Headers : HandleRequest(h))

\* C15: the server is started only after a first poll cycle has run; a
\* periodic cycle is run by the task coming out of its sleep; as long as the
\* server is up and not shut down the task is alive, sleeping towards its next
\* cycle or running one; and once shutdown_event has run no cycle is in
\* progress and the task neither runs nor waits for one.
C15_SchedulingOrder ==
    /\ pc \in {"run_server", "serving", "stopped"} => ended # "none"
    /\ cycle = "periodic" => task = "polling"
    /\ pc = "serving" => task \in {"sleeping", "polling"}
    /\ pc = "stopped" => (cycle = "none" /\ task \notin {"sleeping", "polling"})

\* C16: when a call of update_metrics has ended in which every RPC call
\* behaved as in the previous call and returned the balance it returned then,
\* the registry is equal to the registry the previous call left.
C16_Idempotent == (CycleOver /\ repeat) => registry = atStart

\* a second call has returned after repeating the balances of the first, one
\* of them not zero
C16_Witness ==
    /\ ended = "returned"
    /\ repeat
    /\ \E l \in DOMAIN registry : registry[l] # Zero

\* what the value of T, or the literal reference when T is not set, puts in
\* the place of ${T}
ValueOfT(e) == IF IsSome(e) THEN Get(e) ELSE Placeholder

\* the sample strings with each reference to a set variable replaced by its
\* value, written out string by string
Substituted(e, s) ==
    CASE s = Placeholder -> ValueOfT(e)
      [] s = Twice -> ValueOfT(e) \o <<"x">> \o ValueOfT(e)
      [] s = Mixed -> UnsetRef \o ValueOfT(e)
      [] OTHER -> s

\* o has the shape of t (same kind of node, same keys, same length) and
\* differs from it only in its strings, which are those of t substituted
RECURSIVE Walked(_, _, _)
Walked(e, t, o) ==
    /\ o.tag = t.tag
    /\ CASE t.tag \in {"map", "list"} ->
                /\ DOMAIN o.val = DOMAIN t.val
                /\ \A k \in DOMAIN t.val : Walked(e, t.val[k], o.val[k])
         [] t.tag = "str" -> o.val = Substituted(e, t.val)
         [] OTHER -> o.val = t.val

\* C17: for every sample tree of nested mappings, lists and scalars and every
\* environment, the value substitute_env_variables returns has the keys and
\* the structure of its input, each string with every ${NAME} replaced by the
\* value of NAME when NAME is set and left as written when it is not, at any
\* depth, and every scalar that is not a string unchanged.
C17_ShapePreservingWalk == IsSome(out) => Walked(env, Get(tree), Get(out))

\* a value nested three deep was substituted with T set, and changed
C17_Witness ==
    /\ IsSome(out)
    /\ IsSome(env)
    /\ Get(tree) \in Deep
    /\ Get(out) # Get(tree)

\* C18: once shutdown_event has run, whatever the task was doing, the task is
\* cancelled, the handler's `await task` has returned without raising and the
\* handler has reached its 'Background task stopped' step.
C18_CleanShutdown ==
    pc = "stopped" => (shutdown = "completed" /\ task = "cancelled")

\* the label tuple an 'Updated balance' event speaks of
EventLabels(e) ==
    [address |-> e.address.address,
     address_name |-> e.address.name,
     network_name |-> e.network]

\* C19: every 'Updated balance' info event is about an address and the network
\* the address is bound to, a pair whose query succeeded in the current cycle,
\* and reports the value just written to the pair's registry entry.
C19_InfoLogsOnlyUpdates ==
    \A i \in DOMAIN log :
        log[i].level = "info" =>
            /\ log[i].address.network = log[i].network
            /\ \E p \in queried :
                  /\ Cfg.addresses[p[2]] = log[i].address
                  /\ Cfg.networks[p[1]].name = log[i].network
                  /\ rpc[p[2]] = "ok"
            /\ EventLabels(log[i]) \in DOMAIN registry
            /\ registry[EventLabels(log[i])] = float(log[i].balance)

\* C20: every label tuple of the registry is (address, address name, network
\* name) of an address of the loaded configuration and a network of it whose
\* name is the address's network; before a configuration is loaded the
\* registry is empty.
C20_LabelsFromBoundPairs ==
    IF Loaded
    THEN \A l \in DOMAIN registry :
            \E a \in DOMAIN Cfg.addresses, n \in DOMAIN Cfg.networks :
                /\ Cfg.addresses[a].network = Cfg.networks[n].name
                /\ l = [address |-> Cfg.addresses[a].address,
                        address_name |-> Cfg.addresses[a].name,
                        network_name |-> Cfg.networks[n].name]
    ELSE registry = <<>>

\* a cycle has returned that wrote an entry and passed an address and a
\* network not bound to each other
C20_Witness ==
    /\ ended = "returned"
    /\ registry # <<>>
    /\ \E a \in DOMAIN Cfg.addresses, n \in DOMAIN Cfg.networks :
          Cfg.addresses[a].network # Cfg.networks[n].name

=============================================================================
